---- MODULE Spec2Model ----
(***************************************************************************)
(* A model of src/src/server.rs: the Raft-style server of raft-rs.         *)
(*                                                                         *)
(* Every node runs start(): a loop that executes one role step (follower,  *)
(* candidate, leader) per iteration.  A role step runs until it blocks in  *)
(* receive_rpc; the message it receives is dispatched by handle_rpc and    *)
(* the step resumes after it.  Messages are sequences of u32 words, laid   *)
(* out as the code lays out its big-endian byte vectors (word i of the     *)
(* model is bytes 4(i-1) .. 4i of the code).                               *)
(***************************************************************************)
EXTENDS Integers, Sequences, FiniteSets, TLC

VARIABLES
    server,          \* server[n]: ServerState of node n plus its write_buffer
    pc,              \* pc[n]: where node n's control is inside start()
    step_now,        \* step_now[n]: the `now` captured at the top of the running step
    net,             \* messages in flight: [dst |-> node, data |-> words]
    now,             \* Instant::now()
    cluster_nodes,   \* config.cluster_nodes
    default_leader,  \* config.default_leader
    injected,        \* number of messages the environment has sent so far
    handled,         \* the message the last step handled, if it was a receive_rpc
    granted,         \* the votes granted so far: [voter, term, candidate]
    q_peers,         \* input of the is_quorum check: the peer vector
    q_votes,         \* input of the is_quorum check: the vote count
    q_result         \* result of the is_quorum check: None until it is applied

vars == <<server, pc, step_now, net, now, cluster_nodes, default_leader, injected, handled,
          granted, q_peers, q_votes, q_result>>

----------------------------------------------------------------------------
(* Bounds of the model *)

MaxTerm == 3
MaxClock == 2
MaxInject == 1
MaxNet == 2
MaxPeers == 6
MaxVotes == 7

(* Program constants *)

\* u32::MAX, 2^32 - 1.  TLC's integers are 32-bit signed, so the value is
\* written as its residue modulo 2^32 in that range; no other u32 of the model is
\* negative.
U32Max == -1
ElectionTimeout == 1

None == <<>>
Some(x) == <<x>>

\* The clusters and the seed leaders the model is run with
Clusters == {<<1, 2>>, <<1, 2, 3>>}
DefaultLeaders == {None, Some(1)}

Nodes == {cluster_nodes[i] : i \in DOMAIN cluster_nodes}

ClientData == {42}

----------------------------------------------------------------------------
(* Server::new, and the helpers of the data model *)

vec(v, n) == [i \in 1..n |-> v]

peers(id) == SelectSeq(cluster_nodes, LAMBDA x : x # id)

new(id) ==
    [ current_term       |-> 0,
      state              |-> "Follower",
      voted_for          |-> None,
      log                |-> <<>>,
      commit_index       |-> 0,
      previous_log_index |-> 0,
      next_index         |-> vec(0, Len(peers(id))),
      match_index        |-> vec(0, Len(peers(id))),
      last_heartbeat     |-> 0,
      votes_received     |-> {},
      write_buffer       |-> <<>> ]

LogEntry(leader_id, server_id, term, command, data) ==
    [ leader_id |-> leader_id, server_id |-> server_id, term |-> term,
      command |-> command, data |-> data ]

\* HashMap::insert on votes_received, a set of <<key, value>> pairs with unique keys
insert(map, k, v) == {e \in map : e[1] # k} \cup {<<k, v>>}

\* Vec::sort on a vector of u32
RECURSIVE sort(_)
sort(v) ==
    IF Len(v) <= 1 THEN v
    ELSE LET m  == CHOOSE i \in DOMAIN v : \A j \in DOMAIN v : v[i] <= v[j]
             rest == [k \in 1..(Len(v) - 1) |-> IF k < m THEN v[k] ELSE v[k + 1]]
         IN  <<v[m]>> \o sort(rest)

\* lines 537-539 with >= for >
is_quorum_ge(peer_vec, votes) == votes >= Len(peer_vec) \div 2

\* lines 537-539: is_quorum, with self.peers passed explicitly
\* (usize to u32 by try_into: a length of the model always fits)
is_quorum(peer_vec, votes) == votes > Len(peer_vec) \div 2

----------------------------------------------------------------------------
(* Wire codec: every message is a sequence of u32 words *)

prepare_request_vote(id, term) == <<id, term, 0>>

prepare_heartbeat(id, s) == <<id, s.current_term, 4>>

RECURSIVE encode_entries(_)
encode_entries(write_buffer) ==
    IF write_buffer = <<>> THEN <<>>
    ELSE <<Head(write_buffer).term, Head(write_buffer).data>>
             \o encode_entries(Tail(write_buffer))

prepare_append_batch(id, term, prev_log_index, commit_index, write_buffer) ==
    <<id, term, 2, prev_log_index, commit_index>> \o encode_entries(write_buffer)

\* The result of a decode: the entries, or a panic ("Invalid command type", or a
\* slice past the end of the data)
RECURSIVE deserialize_log_entries(_, _, _, _)
deserialize_log_entries(self_id, sender_id, term, data) ==
    IF Len(data) = 0 THEN [panic |-> FALSE, entries |-> <<>>]
    ELSE IF data[1] > 2 \/ Len(data) < 2 THEN [panic |-> TRUE, entries |-> <<>>]
    ELSE LET command == CASE data[1] = 0 -> "Noop"
                          [] data[1] = 1 -> "Set"
                          [] data[1] = 2 -> "Delete"
             entry == LogEntry(sender_id, self_id, term, command, data[2])
             rest  == deserialize_log_entries(self_id, sender_id, term,
                                              SubSeq(data, 3, Len(data)))
         IN  [panic |-> rest.panic, entries |-> <<entry>> \o rest.entries]

\* lines 493-508, with the decoded entries replacing the log
append_log_overwrite(self_id, s, id, term, data) ==
    LET d == deserialize_log_entries(self_id, id, term, data)
    IN  [panic |-> d.panic,
         st    |-> IF d.panic THEN s ELSE [s EXCEPT !.log = d.entries]]

\* append_log: the node state after the append, or a panic of the decode
append_log(self_id, s, id, term, data) ==
    LET d == deserialize_log_entries(self_id, id, term, data)
    IN  [panic |-> d.panic,
         st    |-> IF d.panic THEN s ELSE [s EXCEPT !.log = @ \o d.entries]]

----------------------------------------------------------------------------
(* The network collaborator: best-effort unicast and fan-out.  Any send may *)
(* fail, which the callers only log, and a send that finds the network     *)
(* full does fail.                                                         *)

send(dst, data) == {[dst |-> dst, data |-> data]}

broadcast(data, addresses) ==
    {[dst |-> addresses[i], data |-> data] : i \in DOMAIN addresses}

\* the states of the network after an attempt to send msgs
transmit(in_flight, msgs) ==
    {in_flight \cup sent : sent \in {x \in SUBSET msgs :
                                         Cardinality(in_flight \cup x) <= MaxNet}}

----------------------------------------------------------------------------
(* Message handlers.  A handler maps the node's state and the message to   *)
(* the set of its possible outcomes: the state after it, the messages it   *)
(* sends, and whether it panicked.                                         *)

Outcome(s, out, panic) == [st |-> s, out |-> out, panic |-> panic]

\* lines 327-341, with the term stepped back instead of forward at line 339
handle_client_request_term_back(id, s, data) ==
    IF s.state # "Leader" THEN {Outcome(s, {}, FALSE)}
    ELSE IF Len(data) < 4 THEN {Outcome(s, {}, TRUE)}
    ELSE LET entry == LogEntry(id, id, s.current_term, "Set", data[4])
         IN  {Outcome([s EXCEPT !.previous_log_index = @ + 1,
                                !.commit_index = @ + 1,
                                !.current_term = @ - 1,
                                !.write_buffer = Append(@, entry)],
                      {}, FALSE)}

\* lines 327-341
handle_client_request(id, s, data) ==
    IF s.state # "Leader" THEN {Outcome(s, {}, FALSE)}
    ELSE IF Len(data) < 4 THEN {Outcome(s, {}, TRUE)}
    ELSE LET entry == LogEntry(id, id, s.current_term, "Set", data[4])
         IN  {Outcome([s EXCEPT !.previous_log_index = @ + 1,
                                !.commit_index = @ + 1,
                                !.current_term = @ + 1,
                                !.write_buffer = Append(@, entry)],
                      {}, FALSE)}

handle_request_vote(id, s, data) ==
    IF s.state # "Follower" THEN {Outcome(s, {}, FALSE)}
    ELSE LET candidate_id   == data[1]
             candidate_term == data[2]
         IN  IF candidate_term < s.current_term THEN {Outcome(s, {}, FALSE)}
             ELSE LET s1 == [s EXCEPT !.voted_for = Some(candidate_id)]
                  IN  IF candidate_id \notin Nodes THEN {Outcome(s1, {}, FALSE)}
                      ELSE {Outcome(s1,
                                    send(candidate_id, <<id, s1.current_term, 1, 1>>),
                                    FALSE)}

handle_request_vote_response(id, s, data) ==
    IF s.state # "Candidate" THEN {Outcome(s, {}, FALSE)}
    ELSE LET voter_id     == data[1]
             vote_granted == (data[3] = 1)
         IN  {Outcome([s EXCEPT !.votes_received = insert(@, voter_id, vote_granted)],
                      {}, FALSE)}

handle_append_entries(id, s, data) ==
    IF s.state # "Follower" THEN {Outcome(s, {}, FALSE)}
    ELSE LET leader      == data[1]
             leader_term == data[2]
         IN  IF leader_term < s.current_term THEN {Outcome(s, {}, FALSE)}
             ELSE IF data[3] # 2 THEN {Outcome(s, {}, FALSE)}
             ELSE IF Len(data) < 4 THEN {Outcome(s, {}, TRUE)}
             ELSE IF ~(data[4] > s.previous_log_index) THEN {Outcome(s, {}, FALSE)}
             ELSE LET s1 == [s EXCEPT !.previous_log_index = data[4]]
                  IN  IF Len(data) < 5 THEN {Outcome(s1, {}, TRUE)}
                      ELSE IF ~(data[5] > s1.commit_index) THEN {Outcome(s1, {}, FALSE)}
                      ELSE LET s2 == [s1 EXCEPT !.commit_index = data[5]]
                               a  == append_log(id, s2, leader, leader_term,
                                                SubSeq(data, 6, Len(data)))
                               s3 == [a.st EXCEPT !.current_term = @ + 1]
                           IN  IF a.panic THEN {Outcome(s2, {}, TRUE)}
                               ELSE IF leader \notin Nodes THEN {Outcome(s3, {}, TRUE)}
                               ELSE {Outcome(s3,
                                             send(leader, <<id, s3.current_term, 3, 1>>),
                                             FALSE)}

\* lines 465-476: the commit index moves to the quorum index, and the client is answered
commit_quorum_unguarded(id, s, quorum_index) ==
    Outcome([s EXCEPT !.commit_index = quorum_index],
            send(id, <<id, s.current_term, 10, 1>>), FALSE)

commit_quorum(id, s, quorum_index) ==
    IF quorum_index >= s.commit_index
    THEN Outcome([s EXCEPT !.commit_index = quorum_index],
                 send(id, <<id, s.current_term, 10, 1>>), FALSE)
    ELSE Outcome(s, {}, FALSE)

\* lines 458-460: the quorum index is element peers.len() / 2 of the sorted
\* match_index (slot peers.len() / 2 + 1 of the model's 1-based sequence)
quorum_slot(id) == (Len(peers(id)) \div 2) + 1

quorum_index(id, s) == sort(s.match_index)[quorum_slot(id)]

handle_append_entries_response(id, s, data) ==
    IF s.state # "Leader" THEN {Outcome(s, {}, FALSE)}
    ELSE IF Len(data) < 4 THEN {Outcome(s, {}, TRUE)}
    ELSE LET sender_id == data[1]
             term      == data[2]
             success   == (data[4] = 1)
         IN  IF term > s.current_term THEN {Outcome(s, {}, FALSE)}
             \* sender_id as usize - 1 indexes the vectors: slot sender_id of the model
             ELSE IF sender_id = 0 THEN {Outcome(s, {}, TRUE)}
             ELSE IF success
             THEN LET last_log_index == s.previous_log_index
                  IN  IF sender_id > Len(s.match_index) THEN {Outcome(s, {}, TRUE)}
                      ELSE LET s1 == [s EXCEPT !.match_index[sender_id] = last_log_index]
                           IN  IF sender_id > Len(s.next_index) THEN {Outcome(s1, {}, TRUE)}
                               ELSE LET s2 == [s1 EXCEPT !.next_index[sender_id] =
                                                             last_log_index + 1]
                                    IN  IF quorum_slot(id) > Len(s2.match_index)
                                        THEN {Outcome(s2, {}, TRUE)}
                                        ELSE {commit_quorum(id, s2, quorum_index(id, s2))}
             ELSE IF sender_id > Len(s.next_index) THEN {Outcome(s, {}, TRUE)}
             \* u32 subtraction at 0: a panic in a build with overflow checks, a wrap
             \* to u32::MAX in one without
             ELSE IF s.next_index[sender_id] = 0
             THEN {Outcome(s, {}, TRUE),
                   Outcome([s EXCEPT !.next_index[sender_id] = U32Max], {}, FALSE)}
             ELSE {Outcome([s EXCEPT !.next_index[sender_id] = @ - 1], {}, FALSE)}

handle_heartbeat(id, s) ==
    IF s.state # "Follower" THEN {Outcome(s, {}, FALSE)}
    ELSE {Outcome([s EXCEPT !.last_heartbeat = now], {}, FALSE)}

handle_heartbeat_response(id, s) == {Outcome(s, {}, FALSE)}

\* line 287: the stale-term filter
is_stale_off_by_one(term, s) == term + 1 < s.current_term

is_stale(term, s) == term < s.current_term

handle_rpc(id, s, data) ==
    IF Len(data) < 3 THEN {Outcome(s, {}, TRUE)}
    ELSE LET term         == data[2]
             message_type == data[3]
         IN  IF is_stale(term, s) THEN {Outcome(s, {}, FALSE)}
             ELSE CASE message_type = 0 -> handle_request_vote(id, s, data)
                    [] message_type = 1 -> handle_request_vote_response(id, s, data)
                    [] message_type = 2 -> handle_append_entries(id, s, data)
                    [] message_type = 3 -> handle_append_entries_response(id, s, data)
                    [] message_type = 4 -> handle_heartbeat(id, s)
                    [] message_type = 5 -> handle_heartbeat_response(id, s)
                    [] message_type = 6 -> handle_client_request(id, s, data)
                    [] OTHER -> {Outcome(s, {}, FALSE)}

----------------------------------------------------------------------------
(* The state machine *)

Handled(n, data) == [n |-> n, data |-> data]
NoMessage == Handled(0, <<>>)

Init ==
    /\ cluster_nodes \in Clusters
    /\ default_leader \in DefaultLeaders
    /\ server = [n \in Nodes |-> new(n)]
    /\ pc = [n \in Nodes |-> "start"]
    /\ step_now = [n \in Nodes |-> 0]
    /\ net = {}
    /\ now = 0
    /\ injected = 0
    /\ handled = NoMessage
    /\ granted = {}
    /\ q_peers = <<>>
    /\ q_votes = 0
    /\ q_result = None

quorum_vars == <<q_peers, q_votes, q_result>>
config_vars == <<cluster_nodes, default_leader>>
env_vars == <<injected, granted>>

\* Time passes
Tick ==
    /\ now < MaxClock
    /\ now' = now + 1
    /\ handled' = NoMessage
    /\ UNCHANGED <<server, pc, step_now, net, config_vars, env_vars, quorum_vars>>

\* What arrives from outside the cluster: a client's write, or a peer's answer
\* that an append failed
ClientRequest(term, data) == <<0, term, 6, data>>
AppendFailure(sender_id, term) == <<sender_id, term, 3, 0>>

Inject(dst, data) ==
    /\ injected < MaxInject
    /\ injected' = injected + 1
    /\ net' \in transmit(net, send(dst, data))
    /\ handled' = NoMessage
    /\ UNCHANGED <<server, pc, step_now, now, config_vars, granted, quorum_vars>>

\* line 149 and line 198: the election timeout has elapsed
election_timeout_elapsed_late(s, t) == t - s.last_heartbeat > ElectionTimeout + 1

election_timeout_elapsed(s, t) == t - s.last_heartbeat > ElectionTimeout

\* lines 126-152: the follower step up to its receive_rpc
follower(n) ==
    /\ pc[n] = "start"
    /\ server[n].state = "Follower"
    /\ LET s0 == server[n]
           s1 == [s0 EXCEPT !.match_index = vec(0, Len(peers(n)) + 1),
                            !.next_index  = vec(0, Len(peers(n)) + 1)]
           first == (s1.current_term = 0)
           s2 == IF first THEN [s1 EXCEPT !.current_term = @ + 1] ELSE s1
       IN  IF first /\ default_leader = Some(n)
           THEN /\ server' = [server EXCEPT ![n] = [s2 EXCEPT !.state = "Leader"]]
                /\ pc' = pc
           ELSE IF election_timeout_elapsed(s2, now)
           THEN /\ server' = [server EXCEPT ![n] = [s2 EXCEPT !.state = "Candidate"]]
                /\ pc' = pc
           ELSE /\ server' = [server EXCEPT ![n] = s2]
                /\ pc' = [pc EXCEPT ![n] = "follower_recv"]
    /\ handled' = NoMessage
    /\ UNCHANGED <<step_now, net, now, config_vars, env_vars, quorum_vars>>

\* lines 183-188: the end of the candidate step
candidate_lost(s) == [s EXCEPT !.votes_received = {}, !.state = "Follower"]

candidate_end(n, s) ==
    IF is_quorum(peers(n), Cardinality(s.votes_received))
    THEN [s EXCEPT !.state = "Leader"]
    ELSE candidate_lost(s)

\* lines 156-181: the candidate step up to its first receive_rpc.  (The future
\* that broadcast returns at line 173 is dropped without an await; like any
\* send, this one may deliver nothing.)
candidate(n) ==
    /\ pc[n] = "start"
    /\ server[n].state = "Candidate"
    /\ server[n].current_term < MaxTerm
    /\ LET s1 == [server[n] EXCEPT !.current_term = @ + 1,
                                   !.voted_for = Some(n),
                                   !.votes_received = insert(@, n, TRUE)]
           data == prepare_request_vote(n, s1.current_term)
       IN  /\ net' \in transmit(net, broadcast(data, peers(n)))
           /\ IF now - s1.last_heartbeat < ElectionTimeout
              THEN /\ server' = [server EXCEPT ![n] = s1]
                   /\ pc' = [pc EXCEPT ![n] = "candidate_recv"]
                   /\ step_now' = [step_now EXCEPT ![n] = now]
              ELSE /\ server' = [server EXCEPT ![n] = candidate_end(n, s1)]
                   /\ UNCHANGED <<pc, step_now>>
    /\ handled' = NoMessage
    /\ UNCHANGED <<now, config_vars, env_vars, quorum_vars>>

\* lines 198-201 with the Leader stepping down to Follower
leader_timed_out_to_follower(s) == [s EXCEPT !.state = "Follower"]

\* lines 198-201 and 238-241: a Leader whose election timeout elapsed
leader_timed_out(s) == [s EXCEPT !.state = "Candidate"]

\* lines 192-212: the leader step up to its first receive_rpc
leader(n) ==
    /\ pc[n] = "start"
    /\ server[n].state = "Leader"
    /\ IF election_timeout_elapsed(server[n], now)
       THEN /\ server' = [server EXCEPT ![n] = leader_timed_out(server[n])]
            /\ UNCHANGED <<pc, net, step_now>>
       ELSE /\ net' \in transmit(net, broadcast(prepare_heartbeat(n, server[n]), peers(n)))
            /\ pc' = [pc EXCEPT ![n] = "leader_recv"]
            /\ step_now' = [step_now EXCEPT ![n] = now]
            /\ UNCHANGED server
    /\ handled' = NoMessage
    /\ UNCHANGED <<now, config_vars, env_vars, quorum_vars>>

\* lines 261-264: receive_rpc takes one message off the network and dispatches it
after_receive(at) ==
    CASE at = "follower_recv"  -> "start"
      [] at = "candidate_recv" -> "candidate_check"
      [] at = "leader_recv"    -> "leader_replicate"
      [] at = "leader_wait"    -> "leader_finish"

\* The granted RequestVoteResponses (lines 368-371) among the messages a node sent
\* in answer to a request
votes_sent(voter, request, sent) ==
    {[voter |-> voter, term |-> request[2], candidate |-> r.dst] :
         r \in {x \in sent : /\ Len(x.data) = 4
                              /\ x.data[1] = voter
                              /\ x.data[3] = 1
                              /\ x.data[4] = 1}}

receive_rpc(n, m) ==
    /\ pc[n] \in {"follower_recv", "candidate_recv", "leader_recv", "leader_wait"}
    /\ m \in net
    /\ m.dst = n
    /\ \E o \in handle_rpc(n, server[n], m.data) :
           /\ o.st.current_term <= MaxTerm
           /\ server' = [server EXCEPT ![n] = o.st]
           /\ net' \in transmit(net \ {m}, o.out)
           /\ pc' = [pc EXCEPT ![n] = IF o.panic THEN "crashed" ELSE after_receive(pc[n])]
           /\ granted' = granted \cup votes_sent(n, m.data, o.out \cap net')
    /\ handled' = Handled(n, m.data)
    /\ UNCHANGED <<step_now, now, config_vars, injected, quorum_vars>>

\* lines 219-222: the leader appends the buffered entries to its own log
RECURSIVE append_own(_, _, _)
append_own(n, s, buffer) ==
    IF buffer = <<>> THEN s
    ELSE append_own(n,
                    append_log(n, s, n, s.current_term, <<2, Head(buffer).data>>).st,
                    Tail(buffer))

\* the step resumes after receive_rpc returns; `now` lives until the step returns
resume(n) ==
    /\ pc[n] \in {"candidate_check", "leader_replicate", "leader_finish"}
    /\ LET s == server[n]
           ack == send(n, <<1>>)
           return == /\ pc' = [pc EXCEPT ![n] = "start"]
                     /\ step_now' = [step_now EXCEPT ![n] = 0]
           block(at) == /\ pc' = [pc EXCEPT ![n] = at]
                        /\ step_now' = step_now
       IN  CASE pc[n] = "candidate_check" ->
                  \* lines 176-188
                  /\ net' = net
                  /\ IF ~is_quorum(peers(n), Cardinality(s.votes_received))
                        /\ step_now[n] - s.last_heartbeat < ElectionTimeout
                     THEN server' = server /\ block("candidate_recv")
                     ELSE server' = [server EXCEPT ![n] = candidate_end(n, s)] /\ return
             [] pc[n] = "leader_replicate" ->
                  \* lines 216-245, and 254-257 when the buffer is empty
                  IF s.write_buffer # <<>>
                  THEN LET append_batch ==
                               prepare_append_batch(n, s.current_term, s.previous_log_index,
                                                    s.commit_index, s.write_buffer)
                           s1 == append_own(n, s, s.write_buffer)
                           commit_index == s1.commit_index
                       IN  /\ net' \in transmit(net, broadcast(append_batch, peers(n)))
                           /\ IF s1.commit_index # commit_index
                              THEN server' = [server EXCEPT ![n] = s1]
                                   /\ block("leader_finish")
                              ELSE IF step_now[n] - s1.last_heartbeat > ElectionTimeout
                              THEN server' = [server EXCEPT ![n] = leader_timed_out(s1)]
                                   /\ return
                              ELSE server' = [server EXCEPT ![n] = s1]
                                   /\ block("leader_wait")
                  ELSE /\ net' \in transmit(net, ack)
                       /\ server' = server
                       /\ return
             [] pc[n] = "leader_finish" ->
                  \* lines 246-257
                  /\ server' = [server EXCEPT ![n].write_buffer = <<>>]
                  /\ net' \in transmit(net, ack)
                  /\ return
    /\ handled' = NoMessage
    /\ UNCHANGED <<now, config_vars, env_vars, quorum_vars>>

\* The environment of the model: a client that writes to node 1 with a term no
\* node has passed, and answers from peer 2 that an append failed
ClientTargets == {1}
ClientTerms == {MaxTerm}
FailureSenders == {2}
InjectTerms == 1..MaxTerm

Next ==
    \/ Tick
    \/ \E dst \in ClientTargets, term \in ClientTerms, data \in ClientData :
           Inject(dst, ClientRequest(term, data))
    \/ \E dst \in ClientTargets, term \in InjectTerms :
           \E sender_id \in FailureSenders : Inject(dst, AppendFailure(sender_id, term))
    \/ \E n \in Nodes : follower(n)
    \/ \E n \in Nodes : candidate(n)
    \/ \E n \in Nodes : leader(n)
    \/ \E n \in Nodes : \E m \in net : receive_rpc(n, m)
    \/ \E n \in Nodes : resume(n)

Spec == Init /\ [][Next]_vars

----------------------------------------------------------------------------
(* is_quorum on its own: the inputs are drawn in the initial state and the *)
(* function is applied once.                                               *)

InitQuorum ==
    /\ cluster_nodes = <<1, 2, 3>>
    /\ default_leader = None
    /\ server = [n \in Nodes |-> new(n)]
    /\ pc = [n \in Nodes |-> "start"]
    /\ step_now = [n \in Nodes |-> 0]
    /\ net = {}
    /\ now = 0
    /\ injected = 0
    /\ handled = NoMessage
    /\ granted = {}
    /\ q_peers \in {[i \in 1..p |-> i + 1] : p \in 0..MaxPeers}
    /\ q_votes \in 0..MaxVotes
    /\ q_result = None

ApplyQuorum ==
    /\ q_result = None
    /\ q_result' = Some(is_quorum(q_peers, q_votes))
    /\ UNCHANGED <<server, pc, step_now, net, now, config_vars, env_vars, handled,
                   q_peers, q_votes>>

SpecQuorum == InitQuorum /\ [][ApplyQuorum]_vars

----------------------------------------------------------------------------
(* handle_request_vote_response and the end of the candidate step on their *)
(* own: a Candidate that has cast its own vote (lines 161-166) is inside   *)
(* the wait loop of lines 176-181, and the RequestVoteResponses addressed  *)
(* to it are drawn in the initial state.                                   *)

\* lines 368-369: the layout of a RequestVoteResponse
VoteResponse(voter, term, vote_granted) == <<voter, term, 1, vote_granted>>

VoteFlags == {0, 1}

InitVotes ==
    /\ cluster_nodes \in Clusters
    /\ default_leader = None
    /\ \E c \in Nodes, t \in 1..MaxTerm :
           /\ server = [n \in Nodes |->
                           IF n = c
                           THEN [new(n) EXCEPT !.current_term = t,
                                               !.state = "Candidate",
                                               !.match_index = vec(0, Len(peers(n)) + 1),
                                               !.next_index = vec(0, Len(peers(n)) + 1),
                                               !.voted_for = Some(n),
                                               !.votes_received = insert({}, n, TRUE)]
                           ELSE new(n)]
           /\ pc = [n \in Nodes |-> IF n = c THEN "candidate_recv" ELSE "start"]
           /\ net \in {x \in SUBSET {[dst |-> c, data |-> VoteResponse(v, t, g)] :
                                         v \in Nodes \ {c}, g \in VoteFlags} :
                           Cardinality(x) <= MaxNet}
    /\ step_now = [n \in Nodes |-> 0]
    /\ now = 0
    /\ injected = 0
    /\ handled = NoMessage
    /\ granted = {}
    /\ q_peers = <<>>
    /\ q_votes = 0
    /\ q_result = None

NextVotes ==
    \/ \E n \in Nodes : \E m \in net : receive_rpc(n, m)
    \/ \E n \in Nodes : resume(n)

SpecVotes == InitVotes /\ [][NextVotes]_vars

\* node n holds a write of `data`, buffered or logged
HasWrite(n, data) ==
    \/ \E i \in DOMAIN server[n].log : server[n].log[i].data = data
    \/ \E i \in DOMAIN server[n].write_buffer : server[n].write_buffer[i].data = data

----------------------------------------------------------------------------
(* The seeded cluster under client writes, within its first election       *)
(* timeout: node 1 is the seed leader, the client sends up to MaxWrites    *)
(* requests, each with its own data word, to node 1, and no clock tick     *)
(* separates the steps.                                                    *)

MaxWrites == 2

WriteData == {42, 43}

InjectWrite(dst, data) ==
    /\ injected < MaxWrites
    /\ \A m \in net : m.data # ClientRequest(MaxTerm, data)
    /\ \A n \in Nodes : ~HasWrite(n, data)
    /\ injected' = injected + 1
    /\ net' \in transmit(net, send(dst, ClientRequest(MaxTerm, data)))
    /\ handled' = NoMessage
    /\ UNCHANGED <<server, pc, step_now, now, config_vars, granted, quorum_vars>>

NextWrites ==
    \/ \E dst \in ClientTargets, data \in WriteData : InjectWrite(dst, data)
    \/ \E n \in Nodes : follower(n)
    \/ \E n \in Nodes : leader(n)
    \/ \E n \in Nodes : \E m \in net : receive_rpc(n, m)
    \/ \E n \in Nodes : resume(n)

InitWrites == Init /\ default_leader = Some(1)

SpecWrites == InitWrites /\ [][NextWrites]_vars

----------------------------------------------------------------------------
(* One replication round on its own.  The seed leader has accepted         *)
(* term - 1 client writes, each replicated in a round of its own (lines    *)
(* 216-222) but the last, accepted in this leader step (so the buffered    *)
(* entry carries term - 1, lines 332-339), and is about to replicate;      *)
(* every Follower has run its follower step and waits in receive_rpc, at a *)
(* term it can have reached by then, having missed the earlier batches.    *)

MaxBatchTerm == 5

InitBatch ==
    /\ cluster_nodes \in Clusters
    /\ default_leader = Some(1)
    /\ \E term \in 2..MaxBatchTerm, data \in WriteData :
       \E terms \in [Nodes \ {1} -> 1..(MaxTerm - 1)] :
           server = [n \in Nodes |->
                        LET s == [new(n) EXCEPT !.match_index = vec(0, Len(peers(n)) + 1),
                                                !.next_index = vec(0, Len(peers(n)) + 1)]
                        IN  IF n = 1
                            THEN [s EXCEPT !.state = "Leader",
                                           !.current_term = term,
                                           !.previous_log_index = term - 1,
                                           !.commit_index = term - 1,
                                           !.log = [i \in 1..(term - 2) |->
                                                       LogEntry(n, n, i + 1, "Delete", data)],
                                           !.write_buffer =
                                               <<LogEntry(n, n, term - 1, "Set", data)>>]
                            ELSE [s EXCEPT !.current_term = terms[n]]]
    /\ pc = [n \in Nodes |-> IF n = 1 THEN "leader_replicate" ELSE "follower_recv"]
    /\ step_now = [n \in Nodes |-> 0]
    /\ net = {}
    /\ now = 0
    /\ injected = 0
    /\ handled = NoMessage
    /\ granted = {}
    /\ q_peers = <<>>
    /\ q_votes = 0
    /\ q_result = None

NextBatch ==
    \/ \E n \in Nodes : resume(n)
    \/ \E n \in Nodes : \E m \in net : receive_rpc(n, m)

SpecBatch == InitBatch /\ [][NextBatch]_vars

----------------------------------------------------------------------------
(* Properties *)

\* the step is node n's receive_rpc
HandledBy(n) == handled'.n = n

\* the step is node n's follower step
FollowerStep(n) ==
    /\ pc[n] = "start"
    /\ server[n].state = "Follower"
    /\ <<server[n], pc[n]>>' # <<server[n], pc[n]>>

HasEntry(n, command, data) ==
    \E i \in DOMAIN server[n].log :
        server[n].log[i].command = command /\ server[n].log[i].data = data

HasData(n, data) ==
    \E i \in DOMAIN server[n].log : server[n].log[i].data = data

\* C1: a node grants at most one vote per term: the granted RequestVoteResponses
\* it has sent for one term all went to the same candidate.
C1_OneVotePerTerm ==
    \A g1 \in granted : \A g2 \in granted :
        (g1.voter = g2.voter /\ g1.term = g2.term) => g1.candidate = g2.candidate

\* C2: in the cluster 1, 2, 3 seeded with leader 1, node 1 is the Leader of term 1
\* (until its election timeout) while nodes 2 and 3 have not left Follower before
\* theirs, and once the write of 42 is in the log of the leader and of both
\* followers, each of the three logs holds an entry Set 42.
C2_EndToEnd ==
    (cluster_nodes = <<1, 2, 3>> /\ default_leader = Some(1)) =>
        /\ server[1].current_term = 0 => server[1].state = "Follower"
        /\ server[1].current_term = 1 => server[1].state \in {"Leader", "Candidate"}
        /\ \A n \in {2, 3} :
               server[n].current_term <= 1 => server[n].state \in {"Follower", "Candidate"}
        /\ (\A n \in Nodes : HasData(n, 42))
               => \A n \in Nodes : HasEntry(n, "Set", 42)

\* C3: no step of any node lowers its current_term.
C3_TermMonotonic ==
    [][\A n \in Nodes : server'[n].current_term >= server[n].current_term]_vars

\* C3 witness: every way of raising the term has acted: a Leader has accepted a
\* client request (term 2, entry buffered), a Follower has appended a batch
\* (term 2, entry logged), and a node has stood as Candidate.
C3_TermRaised ==
    /\ \E n \in Nodes :
           /\ server[n].state = "Leader"
           /\ server[n].current_term = 2
           /\ server[n].write_buffer # <<>>
    /\ \E n \in Nodes :
           /\ server[n].state = "Follower"
           /\ server[n].current_term = 2
           /\ server[n].log # <<>>
    /\ \E n \in Nodes :
           /\ server[n].voted_for = Some(n)
           /\ server[n].current_term >= 2

\* C4: no step of any node lowers its commit_index.
C4_CommitMonotonic ==
    [][\A n \in Nodes : server'[n].commit_index >= server[n].commit_index]_vars

\* C4 witness: a Leader whose commit index is above 0 has just handled a
\* successful AppendEntriesResponse, and a Follower has taken a commit index from
\* a batch.
C4_ResponseHandled ==
    /\ \E n \in Nodes :
           /\ handled.n = n
           /\ Len(handled.data) = 4 /\ handled.data[3] = 3 /\ handled.data[4] = 1
           /\ handled.data[2] = server[n].current_term
           /\ server[n].state = "Leader"
           /\ server[n].commit_index >= 1
           /\ \E i \in DOMAIN server[n].match_index : server[n].match_index[i] >= 1
    /\ \E n \in Nodes :
           /\ server[n].state = "Follower"
           /\ server[n].commit_index >= 1

\* C5: decoding the batch that prepare_append_batch builds from the write buffer,
\* as the receiving follower decodes it, yields the buffered entries: as many, in
\* order, each with the term and the data of the original.
C5_BatchRoundTrip ==
    \A n \in Nodes :
        (pc[n] = "leader_replicate" /\ server[n].write_buffer # <<>>) =>
            LET s == server[n]
                batch == prepare_append_batch(n, s.current_term, s.previous_log_index,
                                              s.commit_index, s.write_buffer)
                d == deserialize_log_entries(0, batch[1], batch[2],
                                             SubSeq(batch, 6, Len(batch)))
            IN  /\ ~d.panic
                /\ Len(d.entries) = Len(s.write_buffer)
                /\ \A i \in DOMAIN d.entries :
                       /\ d.entries[i].term = s.write_buffer[i].term
                       /\ d.entries[i].data = s.write_buffer[i].data

\* C6: handling a message whose term is below the node's current_term leaves the
\* node's state as it was and sends nothing.
C6_StaleDropped ==
    [][\A n \in Nodes :
          (/\ HandledBy(n)
           /\ Len(handled'.data) >= 3
           /\ handled'.data[2] < server[n].current_term)
              => /\ server'[n] = server[n]
                 /\ net' = net \ {[dst |-> n, data |-> handled'.data]}
                 /\ pc'[n] # "crashed"]_vars

\* C6 witness: a node has just handled a Heartbeat of a term below its own (a
\* Heartbeat never changes the term, so it was below before the step as well).
C6_StaleHandled ==
    \E n \in Nodes :
        /\ handled.n = n
        /\ Len(handled.data) = 3 /\ handled.data[3] = 4
        /\ handled.data[2] < server[n].current_term

\* C7: a Leader that handles an AppendEntriesResponse with success = 0 from peer 2
\* lowers next_index[1] (slot 2 of the model) by one, without failing or wrapping,
\* and changes nothing else.
C7_FailureDecrementsOnly ==
    [][\A n \in Nodes :
          (/\ HandledBy(n)
           /\ server[n].state = "Leader"
           /\ handled'.data = AppendFailure(2, server[n].current_term))
              => /\ pc'[n] # "crashed"
                 /\ server'[n].next_index[2] = server[n].next_index[2] - 1
                 /\ server'[n].next_index[2] # U32Max
                 /\ server'[n] = [server[n] EXCEPT !.next_index[2] = server'[n].next_index[2]]
      ]_vars

\* C8: is_quorum(c) is true exactly when c > p/2, p the number of peers.
C8_QuorumIff ==
    q_result # None =>
        LET p == Len(q_peers)
            c == q_votes
            r == q_result[1]
        IN  /\ r <=> (\E k \in 0..p : 2 * k <= p /\ p <= 2 * k + 1 /\ c > k)
            /\ (p = 0 /\ c = 1) => r
            /\ (p = 2 /\ c = 2) => r
            /\ (p = 2 /\ c = 1) => ~r
            /\ (p = 4 /\ c = 3) => r
            /\ (p = 4 /\ c = 2) => ~r

\* C8 witness: is_quorum was applied to 4 peers and 3 votes.
C8_QuorumApplied ==
    q_result = Some(TRUE) /\ Len(q_peers) = 4 /\ q_votes = 3

\* C9: a Follower whose last_heartbeat is older than election_timeout is a
\* Candidate after its next follower step.
C9_TimeoutToCandidate ==
    [][\A n \in Nodes :
          (FollowerStep(n) /\ now - server[n].last_heartbeat > ElectionTimeout)
              => server'[n].state = "Candidate"]_vars

\* C9, amended: a Follower whose last_heartbeat is older than election_timeout is
\* a Candidate after its next follower step, unless that step is its first
\* (current_term = 0) and the node is the configured default leader: then it is
\* Leader.
C9_TimeoutToCandidateUnlessSeed ==
    [][\A n \in Nodes :
          (FollowerStep(n) /\ now - server[n].last_heartbeat > ElectionTimeout)
              => IF server[n].current_term = 0 /\ default_leader = Some(n)
                 THEN server'[n].state = "Leader"
                 ELSE server'[n].state = "Candidate"]_vars

\* C9 witness: node 2, which only its follower step makes a Candidate, waits as
\* Candidate with a last heartbeat older than the timeout; so does node 1 where
\* it is not the default leader.
C9_TimedOut ==
    /\ pc[2] = "start"
    /\ server[2].state = "Candidate"
    /\ now - server[2].last_heartbeat > ElectionTimeout
    /\ default_leader = None
    /\ server[1].state = "Candidate"
    /\ server[1].current_term = 1

\* C10: next_index and match_index have one slot per peer, in every state.
C10_IndexLengths ==
    \A n \in Nodes :
        /\ Len(server[n].next_index) = Len(peers(n))
        /\ Len(server[n].match_index) = Len(peers(n))

\* C11: a Leader's commit_index changes only when it handles an
\* AppendEntriesResponse; accepting a ClientRequest leaves it unchanged.
C11_CommitOnlyOnResponse ==
    [][\A n \in Nodes :
          (/\ server[n].state = "Leader"
           /\ server'[n].commit_index # server[n].commit_index)
              => /\ HandledBy(n)
                 /\ Len(handled'.data) >= 3
                 /\ handled'.data[3] = 3]_vars

C13_WaitUntilCommit ==
    [][\A n \in Nodes :
          (pc[n] = "leader_wait" /\ pc'[n] = "leader_finish")
              => server'[n].commit_index > server[n].commit_index]_vars

\* C14: an entry leaves the Leader's write buffer only once the Leader has
\* appended it to its own log (which the leader step does together with the
\* broadcast of the batch that carries it).
C14_BufferedUntilReplicated ==
    [][\A n \in Nodes : \A i \in DOMAIN server[n].write_buffer :
          (\A j \in DOMAIN server'[n].write_buffer :
               server'[n].write_buffer[j] # server[n].write_buffer[i])
              => \E k \in DOMAIN server'[n].log :
                     server'[n].log[k].data = server[n].write_buffer[i].data]_vars

\* The largest index that a majority holds: the Leader itself (which holds every
\* index up to previous_log_index) plus the peers whose match_index reaches it
\* are more than peers.len()/2
MajorityIndex(n, s) ==
    LET holders(k) == 1 + Cardinality({i \in DOMAIN peers(n) :
                                           /\ peers(n)[i] \in DOMAIN s.match_index
                                           /\ s.match_index[peers(n)[i]] >= k})
        ok == {k \in 0..s.previous_log_index : holders(k) > Len(peers(n)) \div 2}
    IN  CHOOSE k \in ok : \A j \in ok : j <= k

\* C15: when a Leader has handled a successful AppendEntriesResponse of a peer,
\* the quorum index it computes is the largest index held by a majority (the
\* Leader plus the peers whose match_index reaches it).
C15_QuorumIndexIsMajority ==
    [][\A n \in Nodes :
          (/\ HandledBy(n)
           /\ server[n].state = "Leader"
           /\ Len(handled'.data) = 4
           /\ handled'.data[3] = 3 /\ handled'.data[4] = 1
           /\ handled'.data[2] <= server[n].current_term
           /\ \E i \in DOMAIN peers(n) : peers(n)[i] = handled'.data[1])
              => /\ pc'[n] # "crashed"
                 /\ quorum_index(n, server'[n]) = MajorityIndex(n, server'[n])]_vars

\* C16: every node starts as Follower; a step changes a node's role only from
\* Follower to Candidate, Candidate to Leader, Candidate to Follower or Leader to
\* Candidate, or from Follower to Leader on the first step (current_term = 0) of
\* the configured default leader; no message handler changes the role.
C16_RoleTransitions ==
    /\ \A n \in Nodes : server[n].state = "Follower"
    /\ [][\A n \in Nodes :
             LET from == server[n].state
                 to   == server'[n].state
             IN  from # to =>
                     /\ ~HandledBy(n)
                     /\ \/ from = "Follower" /\ to = "Candidate"
                        \/ from = "Candidate" /\ to = "Leader"
                        \/ from = "Candidate" /\ to = "Follower"
                        \/ from = "Leader" /\ to = "Candidate"
                        \/ /\ from = "Follower" /\ to = "Leader"
                           /\ server[n].current_term = 0
                           /\ default_leader = Some(n)]_vars

\* C16 witness: the seed leader 1 has been Leader (it holds a log entry of its
\* own), has timed out into Candidate and lost the election into Follower, while
\* node 2 is a Candidate.
C16_RolesVisited ==
    /\ default_leader = Some(1)
    /\ server[1].state = "Follower"
    /\ server[1].voted_for = Some(1)
    /\ server[1].log # <<>>
    /\ server[2].state = "Candidate"

\* C17: the log of a node before a step is a prefix of its log after the step.
C17_LogAppendOnly ==
    [][\A n \in Nodes :
          /\ Len(server'[n].log) >= Len(server[n].log)
          /\ SubSeq(server'[n].log, 1, Len(server[n].log)) = server[n].log]_vars

\* C17 witness: the Leader and a Follower each hold two entries, the second
\* appended to a log that held the first.
C17_LogsGrown ==
    /\ Len(server[1].log) = 2
    /\ server[1].state = "Leader"
    /\ \E n \in Nodes : server[n].state = "Follower" /\ Len(server[n].log) = 2

\* C18: no two distinct nodes are Leader with the same current_term.
C18_ElectionSafety ==
    \A n1 \in Nodes : \A n2 \in Nodes :
        (/\ n1 # n2
         /\ server[n1].state = "Leader"
         /\ server[n2].state = "Leader")
            => server[n1].current_term # server[n2].current_term

\* C19: a Follower that handles an AppendEntries batch sent by the Leader does
\* not crash.
C19_NoDecodeCrash ==
    [][\A n \in Nodes :
          (/\ HandledBy(n)
           /\ server[n].state = "Follower"
           /\ Len(handled'.data) >= 3
           /\ handled'.data[3] = 2)
              => pc'[n] # "crashed"]_vars

\* the data words of a log, in order
LogData(n) == [i \in DOMAIN server[n].log |-> server[n].log[i].data]

\* C20: with node 1 the only Leader, the data of every Follower's log is a
\* prefix of the data of the Leader's log.
C20_FollowerLogIsPrefix ==
    \A n \in Nodes :
        (server[1].state = "Leader" /\ server[n].state = "Follower") =>
            /\ Len(LogData(n)) <= Len(LogData(1))
            /\ LogData(n) = SubSeq(LogData(1), 1, Len(LogData(n)))

\* C21: in the 3-node cluster with no Leader, a Candidate whose RequestVote
\* reached both peers goes on to wait for their responses inside its candidate
\* step (and so can collect the votes that make some node Leader); the step
\* does not end before any response can arrive.
C21_CandidateAwaitsVotes ==
    [][(/\ cluster_nodes = <<1, 2, 3>>
        /\ \A m \in Nodes : server[m].state # "Leader")
           => \A n \in Nodes :
                  (/\ pc[n] = "start"
                   /\ server[n].state = "Candidate"
                   /\ server'[n].current_term = server[n].current_term + 1
                   /\ broadcast(prepare_request_vote(n, server'[n].current_term),
                                peers(n)) \subseteq net')
                      => pc'[n] = "candidate_recv"]_vars

====
